---- MODULE Spec2Model ----
(***************************************************************************)
(* Model of Telegram_BOT/bot_improved.py: the /calc and /rates command     *)
(* handlers with the two feeds they query, the health HTTP handler with    *)
(* the fake-traffic thread, and process start-up (token loading and main). *)
(*                                                                         *)
(* Texts are sequences of one-character strings.  A Python float is a      *)
(* record [kind, num, exp]: kind "fin" is the decimal num / 10^exp, kind   *)
(* "inf" carries its sign in num, kind "nan" is not-a-number; None is the  *)
(* record of kind "None".  Binary rounding of doubles is not modelled: the *)
(* values within the bounds are decimals that multiply exactly.            *)
(***************************************************************************)
EXTENDS Integers, Sequences, FiniteSets, TLC

\* ---------------------------------------------------------------- bounds
MaxPrice == 3      \* the price PriceFeed quotes, when it is not zero
MaxRate == 2       \* the rate FxFeed quotes, when it is not zero
MaxArgs == 3       \* a command carries 0..MaxArgs arguments
MaxClock == 5      \* the clock runs to MaxClock half seconds after START_TIME
MaxFake == 2       \* the fake-traffic loop is followed for MaxFake rounds
MaxLines == 2      \* the .env file has at most MaxLines lines

\* ----------------------------------------------------------------- texts
UpperLetters ==
  <<"A","B","C","D","E","F","G","H","I","J","K","L","M",
    "N","O","P","Q","R","S","T","U","V","W","X","Y","Z">>

LowerLetters ==
  <<"a","b","c","d","e","f","g","h","i","j","k","l","m",
    "n","o","p","q","r","s","t","u","v","w","x","y","z">>

Digits == <<"0","1","2","3","4","5","6","7","8","9">>

Whitespace == {" ", "\t", "\n"}

IndexIn(c, seq) == CHOOSE i \in 1..Len(seq) : seq[i] = c

IsIn(c, seq) == \E i \in 1..Len(seq) : seq[i] = c

\* str.lower(), one character
LowerChar(c) == IF IsIn(c, UpperLetters) THEN LowerLetters[IndexIn(c, UpperLetters)] ELSE c

\* str.upper(), one character
UpperChar(c) == IF IsIn(c, LowerLetters) THEN UpperLetters[IndexIn(c, LowerLetters)] ELSE c

\* str.lower()
Lower(s) == [i \in 1..Len(s) |-> LowerChar(s[i])]

\* str.upper()
Upper(s) == [i \in 1..Len(s) |-> UpperChar(s[i])]

RECURSIVE LStrip(_, _)
\* str.lstrip(chars)
LStrip(s, chars) ==
  IF s # <<>> /\ Head(s) \in chars THEN LStrip(Tail(s), chars) ELSE s

RECURSIVE RStrip(_, _)
\* str.rstrip(chars)
RStrip(s, chars) ==
  IF s # <<>> /\ s[Len(s)] \in chars THEN RStrip(SubSeq(s, 1, Len(s) - 1), chars) ELSE s

\* str.strip(chars)
Strip(s, chars) == RStrip(LStrip(s, chars), chars)

\* str.startswith(prefix)
StartsWith(s, prefix) ==
  Len(s) >= Len(prefix) /\ SubSeq(s, 1, Len(prefix)) = prefix

\* --------------------------------------------------------------- floats
None == [kind |-> "None", num |-> 0, exp |-> 0]

ValueError == [kind |-> "ValueError", num |-> 0, exp |-> 0]

NaN == [kind |-> "nan", num |-> 0, exp |-> 0]

Inf(sign) == [kind |-> "inf", num |-> sign, exp |-> 0]

Fin(n, e) == [kind |-> "fin", num |-> n, exp |-> e]

RECURSIVE Pow10(_)
Pow10(e) == IF e = 0 THEN 1 ELSE 10 * Pow10(e - 1)

RECURSIVE DigitsToInt(_)
\* the value of a sequence of decimal digits
DigitsToInt(ds) ==
  IF ds = <<>> THEN 0
  ELSE 10 * DigitsToInt(SubSeq(ds, 1, Len(ds) - 1)) + (IndexIn(ds[Len(ds)], Digits) - 1)

Sign(n) == IF n < 0 THEN -1 ELSE IF n > 0 THEN 1 ELSE 0

\* float(text): surrounding whitespace is dropped, then an optional sign, then
\* "inf", "infinity" or "nan" in any case, or digits with at most one point and
\* at least one digit.  Anything else raises ValueError.  (Exponents and digit
\* separators are outside the input alphabet of the model.)
ParseFloat(text) ==
  LET t == Strip(text, Whitespace)
      signed == t # <<>> /\ Head(t) \in {"+", "-"}
      sign == IF signed /\ Head(t) = "-" THEN -1 ELSE 1
      body == IF signed THEN Tail(t) ELSE t
      low == Lower(body)
      points == {i \in 1..Len(body) : body[i] = "."}
      digitsOnly == SelectSeq(body, LAMBDA c : c # ".")
      frac == IF points = {} THEN 0 ELSE Len(body) - (CHOOSE i \in points : TRUE)
  IN  IF low \in {<<"i","n","f">>, <<"i","n","f","i","n","i","t","y">>} THEN Inf(sign)
      ELSE IF low = <<"n","a","n">> THEN NaN
      ELSE IF /\ Cardinality(points) <= 1
              /\ digitsOnly # <<>>
              /\ \A i \in 1..Len(digitsOnly) : IsIn(digitsOnly[i], Digits)
           THEN Fin(sign * DigitsToInt(digitsOnly), frac)
      ELSE ValueError

\* x <= 0 on floats: every comparison with nan is False
LeZero(x) ==
  \/ x.kind = "fin" /\ x.num <= 0
  \/ x.kind = "inf" /\ x.num < 0

\* x * y on floats
Mul(x, y) ==
  IF x.kind = "nan" \/ y.kind = "nan" THEN NaN
  ELSE IF x.kind = "inf" \/ y.kind = "inf"
       THEN IF Sign(x.num) * Sign(y.num) = 0 THEN NaN ELSE Inf(Sign(x.num) * Sign(y.num))
  ELSE Fin(x.num * y.num, x.exp + y.exp)

\* bool(x) of an Optional[float]: None and 0.0 are false, nan and inf are true
Truthy(x) == x.kind # "None" /\ ~(x.kind = "fin" /\ x.num = 0)

\* round-half-even of n / d for d > 0
RoundDiv(n, d) ==
  LET a == IF n < 0 THEN -n ELSE n
      q == a \div d
      r == a % d
      up == IF 2 * r > d \/ (2 * r = d /\ q % 2 = 1) THEN q + 1 ELSE q
  IN  Sign(n) * up

\* format(x, ",.2f"): the value to two decimals; inf and nan print as themselves
Fmt2(x) ==
  IF x.kind # "fin" THEN x
  ELSE IF x.exp <= 2 THEN Fin(x.num * Pow10(2 - x.exp), 2)
  ELSE Fin(RoundDiv(x.num, Pow10(x.exp - 2)), 2)

RECURSIVE IntText(_)
\* str(n) of a natural number
IntText(n) == IF n < 10 THEN <<Digits[n + 1]>> ELSE IntText(n \div 10) \o <<Digits[(n % 10) + 1]>>

\* ---------------------------------------------------------------- coins
\* the dict, in insertion order
SUPPORTED_COINS ==
  << [coin |-> <<"b","t","c">>, pair |-> "BTCUSDT"],
     [coin |-> <<"e","t","h">>, pair |-> "ETHUSDT"],
     [coin |-> <<"l","t","c">>, pair |-> "LTCUSDT"],
     [coin |-> <<"a","d","a">>, pair |-> "ADAUSDT"],
     [coin |-> <<"d","o","t">>, pair |-> "DOTUSDT"],
     [coin |-> <<"b","n","b">>, pair |-> "BNBUSDT"],
     [coin |-> <<"x","r","p">>, pair |-> "XRPUSDT"],
     [coin |-> <<"s","o","l">>, pair |-> "SOLUSDT"] >>

\* SUPPORTED_COINS.keys()
CoinKeys == {SUPPORTED_COINS[i].coin : i \in 1..Len(SUPPORTED_COINS)}

\* ---------------------------------------------------------------- feeds
\* What the Binance endpoint can answer: no answer, a non-2xx status, a body
\* without "price", or a body whose "price" is a text.
PriceResponses ==
  {[status |-> st, has_price |-> FALSE, price |-> <<>>] : st \in {"timeout", "http_error", "ok"}}
    \cup {[status |-> "ok", has_price |-> TRUE, price |-> t] :
            t \in {IntText(p) : p \in {0, MaxPrice}} \cup {<<"x">>}}

\* get_coin_price(coin) given the endpoint's answer: every exception gives None
get_coin_price(coin, resp) ==
  IF coin \notin CoinKeys THEN None
  ELSE IF resp.status # "ok" THEN None
  ELSE IF ~resp.has_price THEN None
  ELSE LET v == ParseFloat(resp.price)
       IN  IF v = ValueError THEN None ELSE v

RateKeys == {"KGS", "kgs", "EUR"}

\* What the exchange-rate endpoint can answer: no answer, a non-2xx status, or
\* a "rates" mapping of some currency codes to numbers.
FxResponses ==
  {[status |-> st, rates |-> <<>>] : st \in {"timeout", "http_error"}}
    \cup {[status |-> "ok", rates |-> r] :
            r \in UNION {[D -> {0, MaxRate}] : D \in SUBSET RateKeys}}

\* get_usdt_to_kgs() given the endpoint's answer: "KGS" is tried before "kgs"
get_usdt_to_kgs(resp) ==
  IF resp.status # "ok" THEN None
  ELSE IF "KGS" \in DOMAIN resp.rates THEN Fin(resp.rates["KGS"], 0)
  ELSE IF "kgs" \in DOMAIN resp.rates THEN Fin(resp.rates["kgs"], 0)
  ELSE None

\* ---------------------------------------------------------------- state
VARIABLES
  \* /calc handler
  cPc,          \* "idle", "get_price" or "get_fx": where the handler stands
  args,         \* context.args of the command being handled
  coin,         \* local coin
  amount,       \* local amount
  coin_price,   \* local coin_price
  kgs_rate,     \* local kgs_rate
  usdt_value,   \* local usdt_value
  total_kgs,    \* local total_kgs
  msg,          \* the text the handler last sent or edited into its message
  feedCalls,    \* the feed calls of the command being handled, in order
  \* /rates handler
  rPc,          \* "idle", "prices" or "fx"
  rIdx,         \* position of the loop over SUPPORTED_COINS.keys()
  rates_text,   \* the lines built so far
  rMsg,         \* the message of the /rates command
  rFeedCalls,   \* the feed calls of the /rates command, in order
  \* health server and fake traffic
  now,          \* time.time() - START_TIME, in half seconds
  FAKE_REQUESTS,
  fakePc,       \* "send", "wait", "got" or "sleep": the fake-traffic loop
  pending,      \* a request of the fake-traffic thread is waiting at the server
  response,     \* what do_GET last answered
  \* start-up
  environ,      \* os.environ's BOT_TOKEN
  dotenv,       \* the .env file: its lines, or missing
  TOKEN,
  mPc,          \* "import", "main", "health", "traffic", "build", "polling", "exit"
  healthServer, \* the health HTTP server is listening
  fakeTraffic,  \* the fake-traffic thread runs
  polling       \* the bot polls Telegram

calcVars == <<cPc, args, coin, amount, coin_price, kgs_rate, usdt_value, total_kgs, msg, feedCalls>>

ratesVars == <<rPc, rIdx, rates_text, rMsg, rFeedCalls>>

healthVars == <<now, FAKE_REQUESTS, fakePc, pending, response>>

mainVars == <<environ, dotenv, TOKEN, mPc, healthServer, fakeTraffic, polling>>

vars == <<calcVars, ratesVars, healthVars, mainVars>>

\* ---------------------------------------------------------------- /calc
\* a message of the handler: its kind and the values rendered into it
Msg(kind) ==
  [kind |-> kind, amount |-> None, coin |-> <<>>, price |-> None,
   usdt |-> None, rate |-> None, total |-> None]

\* one feed call of a handler: the feed, the coin asked for, what came back
PriceCall(c, result) == [feed |-> "price", coin |-> c, result |-> result]

FxCall(result) == [feed |-> "fx", coin |-> <<>>, result |-> result]

\* the coin texts a user sends
CoinInputs ==
  { <<"b","t","c">>, <<"B","T","C">>, <<"B","t","c">>, <<"e","t","h">>, <<"E","T","H">>,
    <<"l","t","c">>, <<"a","d","a">>, <<"d","o","t">>, <<"b","n","b">>, <<"x","r","p">>,
    <<"S","o","L">>, <<"d","o","g","e">>, <<"D","O","G","E">>, <<"b","t">>,
    <<"B","T","C","U","S","D","T">>, <<"5">> }

\* the amount texts a user sends
AmountTexts ==
  { <<"1">>, <<"2">>, <<"0",".","5">>, <<"0",".","0","0","1">>, <<"+","3">>, <<" ","2"," ">>,
    <<"0">>, <<"-","5">>, <<"0",".","0">>, <<"-","0",".","5">>,
    <<"a","b","c">>, <<>>, <<"1",",","5">>, <<"-">>, <<".">>, <<"1",".","2",".","3">>,
    <<"n","a","n">>, <<"N","a","N">>, <<"i","n","f">>, <<"-","i","n","f">>,
    <<"I","n","f","i","n","i","t","y">> }

\* the argument lists a /calc command carries
CalcArgs ==
  (CoinInputs \X AmountTexts)
    \cup UNION {[1..n -> {<<"b","t","c">>, <<"1">>}] : n \in (0..MaxArgs) \ {2}}

\* what lines 77-98 decide: the message sent and the locals set
Checked(kind, c, v) == [kind |-> kind, coin |-> c, amount |-> v]

\* Faulty variant of validate: the amount is checked before the coin.
validate_amount_first(a) ==
  IF Len(a) # 2 THEN Checked("usage", <<>>, None)
  ELSE LET c == Lower(a[1])
           v == ParseFloat(a[2])
       IN  IF v = ValueError THEN Checked("bad_format", c, None)
           ELSE IF LeZero(v) THEN Checked("not_positive", c, v)
           ELSE IF c \notin CoinKeys THEN Checked("unsupported", c, None)
           ELSE Checked("loading", c, v)

\* Faulty variant of validate: only too few arguments give the usage message.
validate_min_args(a) ==
  IF Len(a) < 2 THEN Checked("usage", <<>>, None)
  ELSE LET c == Lower(a[1])
           v == ParseFloat(a[2])
       IN  IF c \notin CoinKeys THEN Checked("unsupported", c, None)
           ELSE IF v = ValueError THEN Checked("bad_format", c, None)
           ELSE IF LeZero(v) THEN Checked("not_positive", c, v)
           ELSE Checked("loading", c, v)

\* lines 77-98: the argument count, then the coin, then the amount
validate(a) ==
  IF Len(a) # 2 THEN Checked("usage", <<>>, None)
  ELSE LET c == Lower(a[1])
           v == ParseFloat(a[2])
       IN  IF c \notin CoinKeys THEN Checked("unsupported", c, None)
           ELSE IF v = ValueError THEN Checked("bad_format", c, None)
           ELSE IF LeZero(v) THEN Checked("not_positive", c, v)
           ELSE Checked("loading", c, v)

\* lines 77-100: a /calc command arrives; its checks, then the loading message
calc_validate(a) ==
  /\ cPc = "idle"
  /\ args' = a
  /\ LET r == validate(a)
     IN  /\ msg' = Msg(r.kind)
         /\ coin' = r.coin
         /\ amount' = r.amount
         /\ cPc' = IF r.kind = "loading" THEN "get_price" ELSE "idle"
  /\ feedCalls' = <<>>
  /\ coin_price' = None
  /\ kgs_rate' = None
  /\ usdt_value' = None
  /\ total_kgs' = None
  /\ UNCHANGED <<ratesVars, healthVars, mainVars>>

\* Faulty variant of calc_price: a failed lookup does not end the command.
calc_price_no_return(resp) ==
  /\ cPc = "get_price"
  /\ coin_price' = get_coin_price(coin, resp)
  /\ feedCalls' = Append(feedCalls, PriceCall(coin, coin_price'))
  /\ msg' = IF coin_price' = None THEN Msg("price_failed") ELSE msg
  /\ cPc' = "get_fx"
  /\ UNCHANGED <<args, coin, amount, kgs_rate, usdt_value, total_kgs>>
  /\ UNCHANGED <<ratesVars, healthVars, mainVars>>

\* lines 101-104: the price lookup; without a price the command ends
calc_price(resp) ==
  /\ cPc = "get_price"
  /\ coin_price' = get_coin_price(coin, resp)
  /\ feedCalls' = Append(feedCalls, PriceCall(coin, coin_price'))
  /\ IF coin_price' = None
     THEN /\ msg' = Msg("price_failed")
          /\ cPc' = "idle"
     ELSE /\ msg' = msg
          /\ cPc' = "get_fx"
  /\ UNCHANGED <<args, coin, amount, kgs_rate, usdt_value, total_kgs>>
  /\ UNCHANGED <<ratesVars, healthVars, mainVars>>

\* Faulty variant of convert: the total leaves the coin's price out.
convert_without_price(amt, price, rate) ==
  [usdt_value |-> Mul(amt, price), total_kgs |-> Mul(amt, rate)]

\* lines 111-112: the arithmetic
convert(amt, price, rate) ==
  [usdt_value |-> Mul(amt, price), total_kgs |-> Mul(Mul(amt, price), rate)]

\* Faulty variant of fx_failure: a missing rate is reported as a missing price.
fx_failure_as_price == Msg("price_failed")

\* line 108: the message for a missing rate
fx_failure == Msg("fx_failed")

\* lines 106-121: the rate lookup, the arithmetic and the rendered result
calc_fx(resp) ==
  /\ cPc = "get_fx"
  /\ kgs_rate' = get_usdt_to_kgs(resp)
  /\ feedCalls' = Append(feedCalls, FxCall(kgs_rate'))
  /\ cPc' = "idle"
  /\ IF kgs_rate' = None
     THEN /\ msg' = fx_failure
          /\ UNCHANGED <<usdt_value, total_kgs>>
     ELSE LET r == convert(amount, coin_price, kgs_rate')
          IN  /\ usdt_value' = r.usdt_value
              /\ total_kgs' = r.total_kgs
              /\ msg' = [kind |-> "result", amount |-> amount, coin |-> Upper(coin),
                         price |-> Fmt2(coin_price), usdt |-> Fmt2(r.usdt_value),
                         rate |-> Fmt2(kgs_rate'), total |-> Fmt2(r.total_kgs)]
  /\ UNCHANGED <<args, coin, amount, coin_price>>
  /\ UNCHANGED <<ratesVars, healthVars, mainVars>>

Calc ==
  \/ \E a \in CalcArgs : calc_validate(a)
  \/ \E resp \in PriceResponses : calc_price(resp)
  \/ \E resp \in FxResponses : calc_fx(resp)

\* --------------------------------------------------------------- /rates
Unavailable == [kind |-> "unavailable", num |-> 0, exp |-> 0]

FxLabel == <<"U","S","D","/","K","G","S">>

\* one line of rates_text after the header
Line(label, value) == [label |-> label, value |-> value]

\* line 124-125: the loading message and the header
rates_start ==
  /\ rPc = "idle"
  /\ rPc' = "prices"
  /\ rIdx' = 1
  /\ rates_text' = <<>>
  /\ rFeedCalls' = <<>>
  /\ rMsg' = [kind |-> "loading", text |-> <<>>]
  /\ UNCHANGED <<calcVars, healthVars, mainVars>>

\* the line the loop adds for a coin whose lookup gave price
coin_line(coin_symbol, price) ==
  IF Truthy(price) THEN Line(Upper(coin_symbol), Fmt2(price))
  ELSE Line(Upper(coin_symbol), Unavailable)

\* Faulty variant of rates_price: a failed lookup ends the loop.
rates_price_stops(resp) ==
  /\ rPc = "prices"
  /\ LET coin_symbol == SUPPORTED_COINS[rIdx].coin
         price == get_coin_price(coin_symbol, resp)
     IN  /\ rFeedCalls' = Append(rFeedCalls, PriceCall(coin_symbol, price))
         /\ rates_text' = Append(rates_text, coin_line(coin_symbol, price))
         /\ rPc' = IF rIdx + 1 > Len(SUPPORTED_COINS) \/ price = None THEN "fx" ELSE "prices"
  /\ rIdx' = rIdx + 1
  /\ UNCHANGED <<rMsg, calcVars, healthVars, mainVars>>

\* lines 126-131: one round of the loop over SUPPORTED_COINS.keys()
rates_price(resp) ==
  /\ rPc = "prices"
  /\ LET coin_symbol == SUPPORTED_COINS[rIdx].coin
         price == get_coin_price(coin_symbol, resp)
     IN  /\ rFeedCalls' = Append(rFeedCalls, PriceCall(coin_symbol, price))
         /\ rates_text' = Append(rates_text, coin_line(coin_symbol, price))
  /\ rIdx' = rIdx + 1
  /\ rPc' = IF rIdx' > Len(SUPPORTED_COINS) THEN "fx" ELSE "prices"
  /\ UNCHANGED <<rMsg, calcVars, healthVars, mainVars>>

\* the text after the rate lookup gave kgs_rate
with_fx_line(text, rate) ==
  IF Truthy(rate) THEN Append(text, Line(FxLabel, Fmt2(rate))) ELSE text

\* lines 133-137: the rate lookup, its line, and the edit of the message
rates_fx(resp) ==
  /\ rPc = "fx"
  /\ LET kgs == get_usdt_to_kgs(resp)
     IN  /\ rFeedCalls' = Append(rFeedCalls, FxCall(kgs))
         /\ rates_text' = with_fx_line(rates_text, kgs)
  /\ rMsg' = [kind |-> "rates", text |-> rates_text']
  /\ rPc' = "idle"
  /\ UNCHANGED <<rIdx, calcVars, healthVars, mainVars>>

Rates ==
  \/ rates_start
  \/ \E resp \in PriceResponses : rates_price(resp)
  \/ \E resp \in FxResponses : rates_fx(resp)

\* -------------------------------------------------------------- health
Paths == {"/", "/health", "/metrics", "/unknown", "/health/", "/metrics?x=1", "/Health", ""}

NoResponse == [path |-> "", status |-> 0, body |-> "", uptime_seconds |-> 0, fake_requests |-> 0]

\* Faulty variant of do_GET: a path is routed by its prefix.
do_GET_by_prefix(path, t, fake) ==
  IF path \in {"/", "/health", "/health/"}
  THEN [path |-> path, status |-> 200, body |-> "OK", uptime_seconds |-> 0, fake_requests |-> 0]
  ELSE IF path \in {"/metrics", "/metrics?x=1"}
  THEN [path |-> path, status |-> 200, body |-> "json",
        uptime_seconds |-> t \div 2, fake_requests |-> fake]
  ELSE [path |-> path, status |-> 404, body |-> "", uptime_seconds |-> 0, fake_requests |-> 0]

\* HealthHandler.do_GET: the answer to GET path at clock t with counter value fake
do_GET(path, t, fake) ==
  IF path \in {"/", "/health"}
  THEN [path |-> path, status |-> 200, body |-> "OK", uptime_seconds |-> 0, fake_requests |-> 0]
  ELSE IF path = "/metrics"
  THEN [path |-> path, status |-> 200, body |-> "json",
        uptime_seconds |-> t \div 2, fake_requests |-> fake]
  ELSE [path |-> path, status |-> 404, body |-> "", uptime_seconds |-> 0, fake_requests |-> 0]

\* what a GET does to the counter: do_GET declares it global and only reads it
counter_after_GET(fake) == fake

\* a client's GET served by the health server
health_get(path) ==
  /\ response' = do_GET(path, now, FAKE_REQUESTS)
  /\ FAKE_REQUESTS' = counter_after_GET(FAKE_REQUESTS)
  /\ UNCHANGED <<now, fakePc, pending, calcVars, ratesVars, mainVars>>

\* time passes
tick ==
  /\ now < MaxClock
  /\ now' = now + 1
  /\ UNCHANGED <<FAKE_REQUESTS, fakePc, pending, response, calcVars, ratesVars, mainVars>>

\* line 205: the fake-traffic thread sends GET / to the local server
fake_send ==
  /\ fakePc = "send"
  /\ FAKE_REQUESTS < MaxFake
  /\ pending' = TRUE
  /\ fakePc' = "wait"
  /\ UNCHANGED <<now, FAKE_REQUESTS, response, calcVars, ratesVars, mainVars>>

\* the server answers the fake-traffic thread's request
fake_served ==
  /\ fakePc = "wait"
  /\ pending
  /\ response' = do_GET("/", now, FAKE_REQUESTS)
  /\ FAKE_REQUESTS' = counter_after_GET(FAKE_REQUESTS)
  /\ pending' = FALSE
  /\ fakePc' = "got"
  /\ UNCHANGED <<now, calcVars, ratesVars, mainVars>>

\* lines 206-207: the request returned, the counter goes up under the lock
fake_count ==
  /\ fakePc = "got"
  /\ FAKE_REQUESTS' = FAKE_REQUESTS + 1
  /\ fakePc' = "sleep"
  /\ UNCHANGED <<now, pending, response, calcVars, ratesVars, mainVars>>

\* lines 208-209: the request raised (time-out, refused connection)
fake_failed ==
  /\ fakePc = "wait"
  /\ pending' = FALSE
  /\ fakePc' = "sleep"
  /\ UNCHANGED <<now, FAKE_REQUESTS, response, calcVars, ratesVars, mainVars>>

\* line 210: time.sleep, then the next round
fake_sleep ==
  /\ fakePc = "sleep"
  /\ fakePc' = "send"
  /\ UNCHANGED <<now, FAKE_REQUESTS, pending, response, calcVars, ratesVars, mainVars>>

HealthGet == \E path \in Paths : health_get(path)

Health ==
  \/ HealthGet
  \/ tick
  \/ fake_send
  \/ fake_served
  \/ fake_count
  \/ fake_failed
  \/ fake_sleep

\* ------------------------------------------------------------- start-up
KeyPrefix == <<"B","O","T","_","T","O","K","E","N","=">>

\* the lines a .env file is made of
EnvLines ==
  { KeyPrefix \o <<"a","b","\n">>,
    KeyPrefix \o <<"\"","q","\"","\n">>,
    KeyPrefix \o <<"\n">>,
    KeyPrefix \o <<"'","'">>,
    <<"P","O","R","T","=","8","\n">>,
    <<" ">> \o KeyPrefix \o <<"z","\n">>,
    <<"#">> \o KeyPrefix \o <<"z","\n">>,
    <<"b","o","t","_","t","o","k","e","n","=","z","\n">> }

\* os.environ: BOT_TOKEN unset, set to the empty string, or set to a token
Environs ==
  { [set |-> FALSE, value |-> <<>>], [set |-> TRUE, value |-> <<>>],
    [set |-> TRUE, value |-> <<"t","k">>] }

\* the .env file: missing, unreadable, or its lines
DotEnvs ==
  {[state |-> st, lines |-> <<>>] : st \in {"missing", "unreadable"}}
    \cup {[state |-> "ok", lines |-> ls] :
            ls \in UNION {[1..n -> EnvLines] : n \in 0..MaxLines}}

NoToken == [kind |-> "None", value |-> <<>>]

Token(text) == [kind |-> "str", value |-> text]

\* line.split('=', 1)[1]
AfterEquals(line) ==
  LET i == CHOOSE k \in 1..Len(line) : line[k] = "=" /\ \A j \in 1..(k - 1) : line[j] # "="
  IN  SubSeq(line, i + 1, Len(line))

\* line 30: the value of a BOT_TOKEN= line
line_value(line) == Strip(Strip(AfterEquals(line), Whitespace), {"\"", "'"})

\* lines 27-33: the first BOT_TOKEN= line of the file, or None without one
token_from_lines(lines) ==
  IF \E i \in 1..Len(lines) : StartsWith(lines[i], KeyPrefix)
  THEN LET i == CHOOSE k \in 1..Len(lines) :
                  /\ StartsWith(lines[k], KeyPrefix)
                  /\ \A j \in 1..(k - 1) : ~StartsWith(lines[j], KeyPrefix)
       IN  Token(line_value(lines[i]))
  ELSE NoToken

\* Faulty variant of get_bot_token: a built-in token stands in for a missing one.
get_bot_token_fallback(env, file) ==
  IF env.set /\ env.value # <<>> THEN Token(env.value)
  ELSE IF file.state = "missing" THEN Token(<<"d","e","f">>)
  ELSE IF token_from_lines(file.lines) = NoToken THEN Token(<<"d","e","f">>)
  ELSE token_from_lines(file.lines)

\* get_bot_token() for a file that is missing or readable
get_bot_token(env, file) ==
  IF env.set /\ env.value # <<>> THEN Token(env.value)
  ELSE IF file.state = "missing" THEN NoToken
  ELSE token_from_lines(file.lines)

\* `not TOKEN`
token_missing(token) == token.kind = "None" \/ token.value = <<>>

\* line 35: the module-level TOKEN = get_bot_token(); an error of open() other
\* than FileNotFoundError is raised out of the import
load_token ==
  /\ mPc = "import"
  /\ IF ~(environ.set /\ environ.value # <<>>) /\ dotenv.state = "unreadable"
     THEN mPc' = "crashed" /\ TOKEN' = TOKEN
     ELSE mPc' = "main" /\ TOKEN' = get_bot_token(environ, dotenv)
  /\ UNCHANGED <<environ, dotenv, healthServer, fakeTraffic, polling, calcVars, ratesVars, healthVars>>

\* lines 217-221: main returns when there is no token
main_check ==
  /\ mPc = "main"
  /\ mPc' = IF token_missing(TOKEN) THEN "exit" ELSE "health"
  /\ UNCHANGED <<environ, dotenv, TOKEN, healthServer, fakeTraffic, polling, calcVars, ratesVars, healthVars>>

\* line 224: start_health_server(); a bind error is raised out of main
main_health ==
  /\ mPc = "health"
  /\ \/ healthServer' = TRUE /\ mPc' = "traffic"
     \/ healthServer' = FALSE /\ mPc' = "crashed"
  /\ UNCHANGED <<environ, dotenv, TOKEN, fakeTraffic, polling, calcVars, ratesVars, healthVars>>

\* line 226: start_fake_traffic()
main_traffic ==
  /\ mPc = "traffic"
  /\ fakeTraffic' = TRUE
  /\ mPc' = "polling"
  /\ UNCHANGED <<environ, dotenv, TOKEN, healthServer, polling, calcVars, ratesVars, healthVars>>

\* lines 228-243: the application is built and polls, or run_polling raises
\* and the error is logged
main_polling ==
  /\ mPc = "polling"
  /\ \/ polling' = TRUE /\ mPc' = "running"
     \/ polling' = FALSE /\ mPc' = "exit"
  /\ UNCHANGED <<environ, dotenv, TOKEN, healthServer, fakeTraffic, calcVars, ratesVars, healthVars>>

Main ==
  \/ load_token
  \/ main_check
  \/ main_health
  \/ main_traffic
  \/ main_polling

\* ------------------------------------------------------- specifications
InitCalc ==
  /\ cPc = "idle"
  /\ args = <<>>
  /\ coin = <<>>
  /\ amount = None
  /\ coin_price = None
  /\ kgs_rate = None
  /\ usdt_value = None
  /\ total_kgs = None
  /\ msg = Msg("none")
  /\ feedCalls = <<>>

InitRates ==
  /\ rPc = "idle"
  /\ rIdx = 1
  /\ rates_text = <<>>
  /\ rMsg = [kind |-> "none", text |-> <<>>]
  /\ rFeedCalls = <<>>

InitHealth ==
  /\ now = 0
  /\ FAKE_REQUESTS = 0
  /\ fakePc = "send"
  /\ pending = FALSE
  /\ response = NoResponse

InitMain ==
  /\ environ \in Environs
  /\ dotenv \in DotEnvs
  /\ TOKEN = NoToken
  /\ mPc = "import"
  /\ healthServer = FALSE
  /\ fakeTraffic = FALSE
  /\ polling = FALSE

\* the process about to import the module, in any environment
InitStart ==
  /\ InitCalc
  /\ InitRates
  /\ InitHealth
  /\ InitMain

\* the process once main has started everything: a state start-up reaches
InitRunning ==
  /\ InitCalc
  /\ InitRates
  /\ InitHealth
  /\ environ = [set |-> TRUE, value |-> <<"t","k">>]
  /\ dotenv = [state |-> "missing", lines |-> <<>>]
  /\ TOKEN = Token(<<"t","k">>)
  /\ mPc = "running"
  /\ healthServer = TRUE
  /\ fakeTraffic = TRUE
  /\ polling = TRUE

\* process start-up, from every environment
SpecMain == InitStart /\ [][Main]_vars

\* the running bot handling one /calc command after another
SpecCalc == InitRunning /\ [][Calc]_vars

\* the running bot handling one /rates command after another
SpecRates == InitRunning /\ [][Rates]_vars

\* the health server with its clients and the fake-traffic thread
SpecHealth == InitRunning /\ [][Health]_vars

\* The whole process: start-up, then the handlers and the health server.  The
\* handlers, the health server and start-up share no state, so each is also
\* given its own specification above, started from a state start-up reaches.
Init == InitStart

Next ==
  \/ Main
  \/ healthServer /\ Health
  \/ polling /\ (Calc \/ Rates)

Spec == Init /\ [][Next]_vars

\* ----------------------------------------------------------- properties
NCoins == Len(SUPPORTED_COINS)

\* the command at hand carries two arguments, a supported coin first
SupportedCoinGiven ==
  /\ Len(args) = 2
  /\ \E k \in CoinKeys : Upper(args[1]) = Upper(k)

\* the float x is the decimal n / 10^e
IsDecimal(x, n, e) == x.kind = "fin" /\ x.num * Pow10(e) = n * Pow10(x.exp)

\* x > 0 on floats
Positive(x) == (x.kind = "fin" /\ x.num > 0) \/ (x.kind = "inf" /\ x.num > 0)

\* C1: within one /calc command the first feed call is the price lookup and
\* the rate lookup comes only after it; when the price lookup returns None the
\* command ends with the "could not fetch coin price" message and the rate
\* feed has not been called.
C1_PriceBeforeFx ==
  /\ \A i \in 1..Len(feedCalls) :
       feedCalls[i].feed = "fx" =>
         \E j \in 1..(i - 1) : feedCalls[j].feed = "price" /\ feedCalls[j].result # None
  /\ (feedCalls # <<>> /\ feedCalls[1].result = None) =>
       /\ feedCalls[1].feed = "price"
       /\ cPc = "idle"
       /\ msg.kind = "price_failed"
       /\ \A i \in 1..Len(feedCalls) : feedCalls[i].feed # "fx"

\* a /calc command ended after a price lookup that returned None
C1_Witness ==
  /\ cPc = "idle"
  /\ Len(feedCalls) = 1
  /\ feedCalls[1].feed = "price"
  /\ feedCalls[1].result = None
  /\ msg.kind = "price_failed"

\* amount texts with the positive decimal num / 10^exp each denotes
PositiveAmounts ==
  { [text |-> <<"1">>, num |-> 1, exp |-> 0],
    [text |-> <<"2">>, num |-> 2, exp |-> 0],
    [text |-> <<"+","3">>, num |-> 3, exp |-> 0],
    [text |-> <<" ","2"," ">>, num |-> 2, exp |-> 0],
    [text |-> <<"0",".","5">>, num |-> 5, exp |-> 1],
    [text |-> <<"0",".","0","0","1">>, num |-> 1, exp |-> 3] }

\* C2: for a supported coin and a positive amount the command reaches the
\* feeds, and once both feeds have returned values p and r it renders the
\* result with usdt_value = amount * p and total_kgs = amount * p * r, showing
\* the amount, the coin, p and r.
C2_Arithmetic ==
  \A a \in PositiveAmounts :
    (SupportedCoinGiven /\ args[2] = a.text) =>
      /\ cPc = "get_price" \/ feedCalls # <<>>
      /\ (Len(feedCalls) = 2 /\ feedCalls[1].result # None /\ feedCalls[2].result # None) =>
           LET p == feedCalls[1].result.num
               r == feedCalls[2].result.num
           IN  /\ msg.kind = "result"
               /\ IsDecimal(usdt_value, a.num * p, a.exp)
               /\ IsDecimal(total_kgs, a.num * p * r, a.exp)
               /\ IsDecimal(msg.amount, a.num, a.exp)
               /\ Upper(msg.coin) = Upper(args[1])
               /\ msg.coin = Upper(msg.coin)
               /\ IsDecimal(msg.price, p, 0)
               /\ IsDecimal(msg.rate, r, 0)
               /\ a.exp <= 2 =>
                    /\ IsDecimal(msg.usdt, a.num * p, a.exp)
                    /\ IsDecimal(msg.total, a.num * p * r, a.exp)

\* 0.5 of a coin at price MaxPrice and rate MaxRate has been converted
C2_Witness ==
  /\ SupportedCoinGiven
  /\ args[2] = <<"0",".","5">>
  /\ msg.kind = "result"
  /\ feedCalls[1].result = Fin(MaxPrice, 0)
  /\ feedCalls[2].result = Fin(MaxRate, 0)
  /\ IsDecimal(total_kgs, 5 * MaxPrice * MaxRate, 1)

\* amount texts that denote no finite decimal number
NotFiniteTexts ==
  { <<"a","b","c">>, <<>>, <<"1",",","5">>, <<"-">>, <<".">>, <<"1",".","2",".","3">>,
    <<"n","a","n">>, <<"N","a","N">>, <<"i","n","f">>, <<"-","i","n","f">>,
    <<"I","n","f","i","n","i","t","y">> }

\* C3: with a supported coin, an amount text that denotes no finite decimal
\* number (non-numeric text, infinity, not-a-number) ends the command with the
\* format-error message and no feed is called.
C3_NotFiniteRejected ==
  (SupportedCoinGiven /\ args[2] \in NotFiniteTexts) =>
    /\ cPc = "idle"
    /\ msg.kind = "bad_format"
    /\ feedCalls = <<>>

\* amount texts that denote a number less than or equal to zero
NonPositiveTexts == { <<"0">>, <<"-","5">>, <<"0",".","0">>, <<"-","0",".","5">> }

\* C4: with a supported coin, an amount text that denotes a number <= 0 ends
\* the command with the must-be-positive message and no feed is called; so
\* whenever a command is at or past the price lookup its amount is > 0.
C4_AmountPositive ==
  /\ (SupportedCoinGiven /\ args[2] \in NonPositiveTexts) =>
       /\ cPc = "idle"
       /\ msg.kind = "not_positive"
       /\ feedCalls = <<>>
  /\ (cPc = "get_price" \/ feedCalls # <<>>) => Positive(amount)

\* C5: a coin text that matches no supported symbol, whatever its case, ends
\* the command with the supported-coins message whatever the amount text is,
\* and no feed is called.
C5_UnsupportedCoinFirst ==
  (Len(args) = 2 /\ ~SupportedCoinGiven) =>
    /\ cPc = "idle"
    /\ msg.kind = "unsupported"
    /\ feedCalls = <<>>

\* an unsupported coin was rejected although the amount text does not parse
C5_Witness ==
  /\ Len(args) = 2
  /\ args[1] = <<"D","O","G","E">>
  /\ args[2] = <<"a","b","c">>
  /\ msg.kind = "unsupported"

\* C6: when the price lookup returned a price and the rate lookup returned
\* None, the command ends with the "could not fetch exchange rate" message and
\* nothing is computed or rendered; the "could not fetch coin price" message
\* appears only when the price lookup itself returned None.
C6_FxFailure ==
  /\ (Len(feedCalls) = 2 /\ feedCalls[2].result = None) =>
       /\ feedCalls[1].feed = "price"
       /\ feedCalls[1].result # None
       /\ feedCalls[2].feed = "fx"
       /\ cPc = "idle"
       /\ msg.kind = "fx_failed"
       /\ usdt_value = None
       /\ total_kgs = None
  /\ msg.kind = "price_failed" =>
       /\ Len(feedCalls) = 1
       /\ feedCalls[1].feed = "price"
       /\ feedCalls[1].result = None

\* a command ended because only the rate lookup failed
C6_Witness ==
  /\ cPc = "idle"
  /\ Len(feedCalls) = 2
  /\ feedCalls[1].result = Fin(MaxPrice, 0)
  /\ feedCalls[2].result = None
  /\ msg.kind = "fx_failed"

\* BOT_TOKEN is not in the environment (unset or empty) and no line of the
\* .env file, if there is one, starts with BOT_TOKEN=
NoTokenAvailable ==
  /\ ~environ.set \/ environ.value = <<>>
  /\ \A i \in 1..Len(dotenv.lines) : ~StartsWith(dotenv.lines[i], KeyPrefix)

\* C7: started with no token available, the process never starts the health
\* server, the fake-traffic thread or the polling loop.
C7_NoTokenNoListener ==
  NoTokenAvailable =>
    /\ ~healthServer
    /\ ~fakeTraffic
    /\ ~polling
    /\ mPc \in {"import", "main", "exit", "crashed"}

\* main returned for want of a token, the .env file holding other lines only
C7_Witness ==
  /\ NoTokenAvailable
  /\ dotenv.state = "ok"
  /\ Len(dotenv.lines) = MaxLines
  /\ mPc = "exit"

\* the feed calls of a /rates command so far: the coins in order, each once,
\* then the rate
RatesCallsInOrder ==
  \A i \in 1..Len(rFeedCalls) :
    IF i <= NCoins
    THEN rFeedCalls[i].feed = "price" /\ rFeedCalls[i].coin = SUPPORTED_COINS[i].coin
    ELSE i = NCoins + 1 /\ rFeedCalls[i].feed = "fx"

\* the coin lines of the finished /rates response: one per coin, in order, a
\* failed lookup shown as unavailable
RatesCoinLines ==
  /\ Len(rFeedCalls) = NCoins + 1
  /\ Len(rMsg.text) >= NCoins
  /\ \A i \in 1..NCoins :
       /\ Upper(rMsg.text[i].label) = Upper(SUPPORTED_COINS[i].coin)
       /\ rFeedCalls[i].result = None => rMsg.text[i].value = Unavailable
       /\ rMsg.text[i].value # Unavailable =>
            IsDecimal(rMsg.text[i].value, rFeedCalls[i].result.num, rFeedCalls[i].result.exp)

\* C8 as stated: whatever the lookups return, /rates asks the price of every
\* supported coin once, shows a failed lookup as unavailable and goes on, asks
\* the rate once after all prices, and answers with one line per coin plus
\* the rate.
C8_AlwaysFxLine ==
  /\ RatesCallsInOrder
  /\ rMsg.kind = "rates" =>
       /\ RatesCoinLines
       /\ Len(rMsg.text) = NCoins + 1
       /\ rMsg.text[NCoins + 1].label = FxLabel

\* C8 amended: as above, but the line of the rate is there exactly when the
\* rate lookup returned a rate other than zero; otherwise the answer ends
\* with the coin lines.
C8_FxLineWhenRate ==
  /\ RatesCallsInOrder
  /\ rMsg.kind = "rates" =>
       /\ RatesCoinLines
       /\ LET rate == rFeedCalls[NCoins + 1].result
          IN  IF rate # None /\ rate.num # 0
              THEN /\ Len(rMsg.text) = NCoins + 1
                   /\ rMsg.text[NCoins + 1].label = FxLabel
                   /\ IsDecimal(rMsg.text[NCoins + 1].value, rate.num, rate.exp)
              ELSE Len(rMsg.text) = NCoins

\* a /rates answer where the second lookup failed, a later one succeeded and
\* the rate lookup failed
C8_Witness ==
  /\ rMsg.kind = "rates"
  /\ rPc = "idle"
  /\ rFeedCalls[2].result = None
  /\ rFeedCalls[NCoins].result = Fin(MaxPrice, 0)
  /\ rFeedCalls[NCoins + 1].result = None
  /\ rMsg.text[2].value = Unavailable
  /\ Len(rMsg.text) = NCoins

\* the answer to the last GET follows the routing table
RoutingFixed ==
  response # NoResponse =>
    IF response.path = "/" \/ response.path = "/health"
    THEN response.status = 200 /\ response.body = "OK"
    ELSE IF response.path = "/metrics"
    THEN /\ response.status = 200
         /\ response.body = "json"
         /\ response.uptime_seconds \in Nat
         /\ response.fake_requests \in Nat
         /\ 2 * response.uptime_seconds <= now
         /\ response.fake_requests <= FAKE_REQUESTS
    ELSE response.status = 404 /\ response.body = ""

\* the counter moves only when the fake-traffic thread counts a request
CounterOnlyCounted ==
  FAKE_REQUESTS' # FAKE_REQUESTS =>
    /\ fakePc = "got"
    /\ fakePc' = "sleep"
    /\ FAKE_REQUESTS' = FAKE_REQUESTS + 1
    /\ response' = response

\* C9: GET / and GET /health answer 200 "OK"; GET /metrics answers 200 with
\* JSON whose uptime_seconds and fake_requests are non-negative integers;
\* every other path answers 404; and serving a GET never changes the
\* fake-request counter.
C9_HealthRouting == []RoutingFixed /\ [][CounterOnlyCounted]_vars

\* /metrics was served after two seconds and MaxFake counted fake requests
C9_Witness ==
  /\ response.path = "/metrics"
  /\ response.status = 200
  /\ response.uptime_seconds = 2
  /\ response.fake_requests = MaxFake

\* C10: a /calc command with any number of arguments other than two sends the
\* usage message and ends: no coin or amount is read and no feed is called.
C10_UsageOnly ==
  [][(cPc = "idle" /\ Len(args') # 2) =>
       /\ msg'.kind = "usage"
       /\ cPc' = "idle"
       /\ coin' = <<>>
       /\ amount' = None
       /\ feedCalls' = <<>>]_calcVars

\* a command with three arguments got the usage message
C10_Witness ==
  /\ Len(args) = 3
  /\ msg.kind = "usage"
  /\ cPc = "idle"

====
